---- MODULE Spec2Model ----
(***************************************************************************)
(* A model of weather-widget (src/main.py): the WMO code table, the IP     *)
(* geolocation resolver with provider fallback, the open-meteo fetcher     *)
(* with its degraded path, the tooltip formatter and main().               *)
(*                                                                         *)
(* Text is modelled by TLA+ strings.  The module is ASCII, so every        *)
(* non-ASCII character of the source is written as a fixed ASCII stand-in: *)
(*   emoji      -> a name in braces, e.g. U+2753 (question mark) = "{?}"   *)
(*   degree sign -> "deg",  arrow U+2192 -> "->"                           *)
(*   ae oe ue ss -> the usual transliteration of the German letters        *)
(* Floats that the program rounds are modelled as integers counting        *)
(* halves (v stands for v/2) so that ties occur; NaN is a separate value.  *)
(* Coordinates are integers counting thousandths of a degree.              *)
(* Instants are records [s |-> epoch seconds, us |-> microseconds].        *)
(***************************************************************************)
EXTENDS Integers, Sequences, FiniteSets, TLC

\* Python's None (and an absent JSON key)
None == "None"
\* A float: Num(v) stands for v/2; NaN for float('nan')
Num(v) == [nan |-> FALSE, v |-> v]
NaN == [nan |-> TRUE, v |-> 0]

----------------------------------------------------------------------------
(* Generic helpers: Python built-ins the program uses *)

Min2(a, b) == IF a <= b THEN a ELSE b
Max2(a, b) == IF a >= b THEN a ELSE b

\* Python truthiness of an Optional[str]
Truthy(x) == x # None /\ x # ""

\* `a or b`
PyOr(a, b) == IF Truthy(a) THEN a ELSE b

\* round(x) of a float x = v/2: round half to even
PyRound(v) ==
  IF v % 2 = 0 THEN v \div 2
  ELSE LET lo == (v - 1) \div 2 IN IF lo % 2 = 0 THEN lo ELSE lo + 1

\* int(x) of a float x = v/2: truncation toward zero
PyInt(v) == IF v >= 0 THEN v \div 2 ELSE -((-v) \div 2)

\* list[:k] for a list and an integer k (negative k counts from the end)
Slice(seq, k) ==
  IF k >= 0 THEN SubSeq(seq, 1, Min2(k, Len(seq)))
  ELSE SubSeq(seq, 1, Max2(Len(seq) + k, 0))

RECURSIVE Join(_, _)
\* sep.join(parts)
Join(sep, parts) ==
  IF Len(parts) = 0 THEN ""
  ELSE IF Len(parts) = 1 THEN parts[1]
  ELSE parts[1] \o sep \o Join(sep, Tail(parts))

LowerChars == "abcdefghijklmnopqrstuvwxyz"
UpperChars == "ABCDEFGHIJKLMNOPQRSTUVWXYZ"

CharAt(s, i) == SubSeq(s, i, i)

\* str.upper() / str.lower() of one character
UpperChar(c) ==
  IF \E i \in 1..Len(LowerChars) : CharAt(LowerChars, i) = c
  THEN CharAt(UpperChars, CHOOSE i \in 1..Len(LowerChars) : CharAt(LowerChars, i) = c)
  ELSE c
LowerChar(c) ==
  IF \E i \in 1..Len(UpperChars) : CharAt(UpperChars, i) = c
  THEN CharAt(LowerChars, CHOOSE i \in 1..Len(UpperChars) : CharAt(UpperChars, i) = c)
  ELSE c

RECURSIVE LowerStr(_)
\* str.lower(), character by character (the string is halved to keep the
\* evaluation shallow)
LowerStr(s) ==
  IF Len(s) = 0 THEN ""
  ELSE IF Len(s) = 1 THEN LowerChar(s)
  ELSE LET h == Len(s) \div 2
       IN  LowerStr(SubSeq(s, 1, h)) \o LowerStr(SubSeq(s, h + 1, Len(s)))

\* str.capitalize(): first character upper-cased, the rest lower-cased
Capitalize(s) ==
  IF Len(s) = 0 THEN ""
  ELSE UpperChar(CharAt(s, 1)) \o LowerStr(SubSeq(s, 2, Len(s)))

\* str(x) of an int (an Optional[str] prints as itself, None as "None")
Str(x) == ToString(x)

Pad2(n) == IF n < 10 THEN "0" \o ToString(n) ELSE ToString(n)
Pad3(n) == IF n < 10 THEN "00" \o ToString(n)
           ELSE IF n < 100 THEN "0" \o ToString(n) ELSE ToString(n)

----------------------------------------------------------------------------
(* The WMO table *)

WMO ==
     (0  :> <<"{sun}", "klar">>)
  @@ (1  :> <<"{sun-small-cloud}", "ueberwiegend klar">>)
  @@ (2  :> <<"{sun-behind-cloud}", "teilweise bewoelkt">>)
  @@ (3  :> <<"{cloud}", "bedeckt">>)
  @@ (45 :> <<"{fog}", "nebel">>)
  @@ (48 :> <<"{fog}", "reifnebel">>)
  @@ (51 :> <<"{sun-rain}", "niesel (leicht)">>)
  @@ (53 :> <<"{sun-rain}", "niesel (maessig)">>)
  @@ (55 :> <<"{rain}", "niesel (stark)">>)
  @@ (56 :> <<"{rain}", "gefrierender niesel (leicht)">>)
  @@ (57 :> <<"{rain}", "gefrierender niesel (stark)">>)
  @@ (61 :> <<"{sun-rain}", "regen (leicht)">>)
  @@ (63 :> <<"{rain}", "regen (maessig)">>)
  @@ (65 :> <<"{rain}", "regen (stark)">>)
  @@ (66 :> <<"{rain}", "gefrierender regen (leicht)">>)
  @@ (67 :> <<"{rain}", "gefrierender regen (stark)">>)
  @@ (71 :> <<"{snow-cloud}", "schnee (leicht)">>)
  @@ (73 :> <<"{snow-cloud}", "schnee (maessig)">>)
  @@ (75 :> <<"{snowflake}", "schnee (stark)">>)
  @@ (77 :> <<"{snow-cloud}", "schneekoerner">>)
  @@ (80 :> <<"{sun-rain}", "schauer (leicht)">>)
  @@ (81 :> <<"{rain}", "schauer (maessig)">>)
  @@ (82 :> <<"{rain}", "schauer (heftig)">>)
  @@ (85 :> <<"{snow-cloud}", "schneeschauer (leicht)">>)
  @@ (86 :> <<"{snowflake}", "schneeschauer (heftig)">>)
  @@ (95 :> <<"{thunder}", "gewitter">>)
  @@ (96 :> <<"{thunder}", "gewitter mit hagel (leicht)">>)
  @@ (99 :> <<"{thunder}", "gewitter mit hagel (stark)">>)

\* WMO.get(int(code), ...) with the fallback dropped for negative codes
wmo_lookup_no_negative(code) ==
  IF code \in DOMAIN WMO THEN WMO[code]
  ELSE IF code < 0 THEN <<"{?}", "">> ELSE <<"{?}", "unbekannt">>

\* WMO.get(int(code), ("{?}", "unbekannt")); the callers pass an int
wmo_to_icon_desc(code) ==
  IF code \in DOMAIN WMO THEN WMO[code] ELSE <<"{?}", "unbekannt">>

----------------------------------------------------------------------------
(* Instants and the local zone *)

Instant(sec) == [s |-> sec, us |-> 0]

\* t.astimezone().replace(minute=0, second=0, microsecond=0), as an instant;
\* off is the local zone's UTC offset in seconds
TruncHour(t, off) == Instant(((t.s + off) \div 3600) * 3600 - off)

\* a >= b on aware datetimes
InstantGE(a, b) == a.s > b.s \/ (a.s = b.s /\ a.us >= b.us)

\* t.astimezone().strftime("%H:%M")
LocalHHMM(t, off) ==
  Pad2(((t.s + off) \div 3600) % 24) \o ":" \o Pad2(((t.s + off) \div 60) % 60)

----------------------------------------------------------------------------
(* Tooltip: the hourly block (format_hourly_forecast) *)

\* default of the parameter `hours`
DefaultHours == 6

\* the filter with the current instant left untruncated
future_points_untruncated_now(hourly, now, off) ==
  SelectSeq(hourly, LAMBDA h : InstantGE(TruncHour(h.time, off), now))

\* future = [h for h in hourly if h.get("time") and trunc(h["time"]) >= trunc(now)]
future_points(hourly, now, off) ==
  SelectSeq(hourly, LAMBDA h : InstantGE(TruncHour(h.time, off), TruncHour(now, off)))

\* the selection without the fallback to the unfiltered list
select_rows_no_fallback(hourly, hours, now, off) ==
  Slice(future_points(hourly, now, off), hours)

\* rows = future[:hours] if future else hourly[:hours]
select_rows(hourly, hours, now, off) ==
  LET future == future_points(hourly, now, off)
  IN  IF Len(future) > 0 THEN Slice(future, hours) ELSE Slice(hourly, hours)

\* f"{t_local}  {icon}  {temp}degC"
hourly_line(h, off) ==
  LocalHHMM(h.time, off) \o "  " \o wmo_to_icon_desc(h.wmo)[1] \o "  " \o Str(h.temp) \o "degC"

\* now and off are what datetime.now() and astimezone() read from the system
format_hourly_forecast(hourly, hours, now, off) ==
  IF Len(hourly) = 0 THEN ""
  ELSE LET rows  == select_rows(hourly, hours, now, off)
           lines == <<"", "", "Stuendlich:">>
                      \o [i \in 1..Len(rows) |-> hourly_line(rows[i], off)]
       IN  Join("\n", lines)

----------------------------------------------------------------------------
(* Waybar builder (build_waybar_output) *)

\* the tooltip with the humidity line before the feels-like line
tooltip_text_swapped(location_info, request_limit_warning, temp, icon, description, feels_like, humidity, wind_speed, hourly_block) ==
     "{pin} " \o location_info.city \o ", " \o location_info.region
              \o ", " \o location_info.country
  \o request_limit_warning \o "\n"
  \o "<span size='xx-large'>" \o Str(temp) \o "degC</span>\n"
  \o "<big>" \o icon \o " " \o Capitalize(description) \o "</big>\n"
  \o "Feuchtigkeit: " \o Str(humidity) \o "%\n"
  \o "Gefuehlte: " \o Str(feels_like) \o "degC\n"
  \o "Wind: " \o Str(wind_speed) \o " km/h"
  \o hourly_block

\* the f-string of lines 95-104
tooltip_text(location_info, request_limit_warning, temp, icon, description, feels_like, humidity, wind_speed, hourly_block) ==
     "{pin} " \o location_info.city \o ", " \o location_info.region
              \o ", " \o location_info.country
  \o request_limit_warning \o "\n"
  \o "<span size='xx-large'>" \o Str(temp) \o "degC</span>\n"
  \o "<big>" \o icon \o " " \o Capitalize(description) \o "</big>\n"
  \o "Gefuehlte: " \o Str(feels_like) \o "degC\n"
  \o "Feuchtigkeit: " \o Str(humidity) \o "%\n"
  \o "Wind: " \o Str(wind_speed) \o " km/h"
  \o hourly_block

\* current["temp"] etc. are ints here, and round() of an int is that int
build_waybar_output(location_info, weather_data, request_limit_warning, now, off) ==
  LET current     == weather_data.current
      temp        == current.temp
      feels_like  == current.feels_like
      humidity    == current.humidity
      wind_speed  == current.wind_speed
      description == current.weather.description
      icon_code   == current.weather.icon_code
      icon        == current.weather.icon
  IN  [ text    |-> icon \o " " \o Str(temp) \o "degC",
        alt     |-> description,
        tooltip |-> tooltip_text(location_info, request_limit_warning, temp, icon,
                      description, feels_like, humidity, wind_speed,
                      format_hourly_forecast(weather_data.hourly, DefaultHours, now, off)),
        class   |-> icon_code ]

----------------------------------------------------------------------------
(* Number formatting and parsing *)

\* f"{x:.2f}" of a coordinate x (thousandths); ties of the third decimal
\* depend on the binary float and are not drawn as inputs
Fmt2f(x) ==
  LET a == IF x < 0 THEN -x ELSE x
      h == (a + 5) \div 10
  IN  (IF x < 0 THEN "-" ELSE "") \o ToString(h \div 100) \o "." \o Pad2(h % 100)

\* f"{x:.6f}" of a coordinate x (thousandths)
Fmt6f(x) ==
  LET a == IF x < 0 THEN -x ELSE x
  IN  (IF x < 0 THEN "-" ELSE "") \o ToString(a \div 1000) \o "." \o Pad3(a % 1000) \o "000"

Digits == "0123456789"
IsDigit(c) == \E i \in 1..Len(Digits) : CharAt(Digits, i) = c
DigitVal(c) == (CHOOSE i \in 1..Len(Digits) : CharAt(Digits, i) = c) - 1

RECURSIVE AllDigits(_)
AllDigits(s) == Len(s) = 0 \/ (IsDigit(CharAt(s, 1)) /\ AllDigits(SubSeq(s, 2, Len(s))))

RECURSIVE NatOf(_)
\* value of a digit string
NatOf(s) ==
  IF Len(s) = 0 THEN 0
  ELSE NatOf(SubSeq(s, 1, Len(s) - 1)) * 10 + DigitVal(CharAt(s, Len(s)))

\* position of the first occurrence of character c in s, 0 when absent
IndexOf(s, c) ==
  IF \E i \in 1..Len(s) : CharAt(s, i) = c
  THEN CHOOSE i \in 1..Len(s) : CharAt(s, i) = c /\ \A j \in 1..(i - 1) : CharAt(s, j) # c
  ELSE 0

RECURSIVE Split(_, _)
\* s.split(c)
Split(s, c) ==
  LET k == IndexOf(s, c)
  IN  IF k = 0 THEN <<s>>
      ELSE <<SubSeq(s, 1, k - 1)>> \o Split(SubSeq(s, k + 1, Len(s)), c)

\* float(s) of a string: [-]digits[.digits] with at most three decimals gives
\* thousandths; anything else of the inputs drawn here is a ValueError
ParseFloat(s) ==
  LET neg  == Len(s) > 0 /\ CharAt(s, 1) = "-"
      body == IF neg THEN SubSeq(s, 2, Len(s)) ELSE s
      dot  == IndexOf(body, ".")
      ip   == IF dot = 0 THEN body ELSE SubSeq(body, 1, dot - 1)
      fp   == IF dot = 0 THEN "" ELSE SubSeq(body, dot + 1, Len(body))
      fp3  == SubSeq(fp \o "000", 1, 3)
      ok   == Len(ip) + Len(fp) > 0 /\ AllDigits(ip) /\ AllDigits(fp) /\ Len(fp) <= 3
      mag  == NatOf(ip) * 1000 + NatOf(fp3)
  IN  IF ok THEN [ok |-> TRUE, v |-> IF neg THEN -mag ELSE mag]
      ELSE [ok |-> FALSE, v |-> 0]

----------------------------------------------------------------------------
(* JSON values of a provider's reply *)

JAbsent == [t |-> "absent", n |-> 0, s |-> ""]
JNum(x) == [t |-> "num", n |-> x, s |-> ""]
JStr(x) == [t |-> "str", n |-> 0, s |-> x]

\* an exception: its class and str(e)
Exc(type, msg) == [type |-> type, msg |-> msg]
NoExc == Exc("", "")
Raised(r) == r.exc # NoExc

Ok(v) == [exc |-> NoExc, v |-> v]
Fail(type, msg) == [exc |-> Exc(type, msg), v |-> None]

\* float(d[key])
FloatOfKey(d, key) ==
  LET j == d[key]
  IN  IF j.t = "absent" THEN Fail("KeyError", "'" \o key \o "'")
      ELSE IF j.t = "num" THEN Ok(j.n)
      ELSE LET f == ParseFloat(j.s)
           IN  IF f.ok THEN Ok(f.v)
               ELSE Fail("ValueError", "could not convert string to float: '" \o j.s \o "'")

\* d.get(key) of a text field
GetText(d, key) == IF d[key].t = "str" THEN d[key].s ELSE None

\* float(d["loc"].split(",")[i]) for i = 0, 1
FloatOfLoc(d, i) ==
  LET j == d["loc"]
  IN  IF j.t = "absent" THEN Fail("KeyError", "'loc'")
      ELSE IF j.t = "num" THEN Fail("AttributeError", "'float' object has no attribute 'split'")
      ELSE LET parts == Split(j.s, ",")
           IN  IF Len(parts) <= i THEN Fail("IndexError", "list index out of range")
               ELSE LET f == ParseFloat(parts[i + 1])
                    IN  IF f.ok THEN Ok(f.v)
                        ELSE Fail("ValueError", "could not convert string to float: '"
                                                  \o parts[i + 1] \o "'")

\* a parser's tuple: the first raising element raises, left to right
ParsedTuple(lat, lon, city, region, country) ==
  IF Raised(lat) THEN lat
  ELSE IF Raised(lon) THEN lon
  ELSE Ok([lat |-> lat.v, lon |-> lon.v, city |-> city, region |-> region, country |-> country])

parse_ipapi(d) ==
  ParsedTuple(FloatOfKey(d, "latitude"), FloatOfKey(d, "longitude"), GetText(d, "city"), GetText(d, "region"), PyOr(GetText(d, "country_name"), GetText(d, "country")))

parse_ipinfo(d) ==
  ParsedTuple(FloatOfLoc(d, 0), FloatOfLoc(d, 1), GetText(d, "city"), GetText(d, "region"), GetText(d, "country"))

parse_ip_api(d) ==
  ParsedTuple(FloatOfKey(d, "lat"), FloatOfKey(d, "lon"), GetText(d, "city"), PyOr(GetText(d, "regionName"), GetText(d, "region")), GetText(d, "country"))

\* the providers in another order
providers_swapped ==
  << [url |-> "https://ipinfo.io/json", host |-> "ipinfo.io", tls |-> TRUE],
     [url |-> "https://ipapi.co/json/", host |-> "ipapi.co", tls |-> TRUE],
     [url |-> "http://ip-api.com/json", host |-> "ip-api.com", tls |-> FALSE] >>

\* the list `providers`: url (with its host and scheme)
providers ==
  << [url |-> "https://ipapi.co/json/", host |-> "ipapi.co", tls |-> TRUE],
     [url |-> "https://ipinfo.io/json", host |-> "ipinfo.io", tls |-> TRUE],
     [url |-> "http://ip-api.com/json", host |-> "ip-api.com", tls |-> FALSE] >>

\* the lambda paired with a url
parser_of(url, d) ==
  IF url = "https://ipapi.co/json/" THEN parse_ipapi(d)
  ELSE IF url = "https://ipinfo.io/json" THEN parse_ipinfo(d)
  ELSE parse_ip_api(d)

\* default of the parameter `timeout`
DefaultTimeout == 4

\* One pass of the loop body for provider p and the reply resp the network gives:
\* requests.get, raise_for_status, r.json(), parser(data)
try_provider(p, resp) ==
  IF resp.kind = "timeout"
  THEN Fail("ReadTimeout",
            (IF p.tls THEN "HTTPSConnectionPool(host='" ELSE "HTTPConnectionPool(host='")
            \o p.host \o "', port=" \o (IF p.tls THEN "443" ELSE "80")
            \o "): Read timed out. (read timeout=" \o Str(DefaultTimeout) \o ")")
  ELSE IF resp.status >= 400
  THEN Fail("HTTPError", Str(resp.status)
            \o (IF resp.status < 500 THEN " Client Error: " ELSE " Server Error: ")
            \o resp.reason \o " for url: " \o p.url)
  ELSE IF resp.kind = "notjson"
  THEN Fail("JSONDecodeError", "Expecting value: line 1 column 1 (char 0)")
  ELSE parser_of(p.url, resp.data)

\* the handler keeps the first error instead of the last
keep_first_err(last_err, e) == IF last_err = NoExc THEN e ELSE last_err

\* except Exception as e: last_err = e
record_err(last_err, e) == e

\* raise RuntimeError(f"IP-Geolokation fehlgeschlagen: {last_err}")
exhausted_error(last_err) ==
  Exc("RuntimeError", "IP-Geolokation fehlgeschlagen: " \o last_err.msg)

----------------------------------------------------------------------------
(* Fetch and normalisation (get_weather) *)

\* the snapshot of the except branch
degraded_weather_data ==
  [ request_limit_reached |-> TRUE,
    current |-> [ temp |-> 0, feels_like |-> 0, humidity |-> 0, wind_speed |-> 0,
                  wind_deg |-> 0,
                  weather |-> [description |-> "unbekannt", icon |-> "{?}", icon_code |-> "-1"] ],
    hourly |-> <<>> ]

\* city = place_name or f"{lat:.2f},{lon:.2f}"; region and country as given
make_location_info(lat, lon, place_name, region, country) ==
  [ city    |-> PyOr(place_name, Fmt2f(lat) \o "," \o Fmt2f(lon)),
    region  |-> region,
    country |-> country ]

\* the block "Current": cur is the six variables in the order requested
normalise_current(cur) ==
  LET wmo_code == PyInt(cur[6].v)
      pair     == wmo_to_icon_desc(wmo_code)
  IN  [ temp       |-> PyRound(cur[1].v),
        feels_like |-> PyRound(cur[2].v),
        humidity   |-> PyRound(cur[3].v),
        wind_speed |-> PyRound(cur[4].v),
        wind_deg   |-> PyRound(cur[5].v),
        weather    |-> [description |-> pair[2], icon |-> pair[1], icon_code |-> Str(wmo_code)] ]

\* n = int((end - start).total_seconds() // step), for step # 0
step_count(start, end, step) == (end - start) \div step

\* the clamp without the code array
n_ok_ignoring_wmo(n, t2m, wmo) == Min2(n, Len(t2m))

\* n_ok = min(n, t2m.size, wmo.size)
n_ok_of(n, t2m, wmo) == Min2(n, Min2(Len(t2m), Len(wmo)))

\* start + i * (end - start) / max(n, 1): a timedelta divided by an int is
\* rounded to the nearest microsecond, ties to even
hour_time(start, end, n, i) ==
  LET m   == Max2(n, 1)
      num == i * (end - start)
      q   == num \div m
      x   == (num % m) * 1000000
      qq  == x \div m
      rr  == x % m
      us  == IF 2 * rr < m THEN qq
             ELSE IF 2 * rr > m THEN qq + 1
             ELSE IF qq % 2 = 0 THEN qq ELSE qq + 1
  IN  IF us = 1000000 THEN [s |-> start + q + 1, us |-> 0]
      ELSE [s |-> start + q, us |-> us]

\* the entries that range(n_ok) reads: index i of both arrays, 0-based
hourly_reads(n_ok) == 0..(n_ok - 1)

\* the body of the try block for a reply fr of the forecast service; exc is
\* what the block raises, if anything
try_block(fr) ==
  IF fr.request # "ok" THEN Fail("OpenMeteoRequestsError", "request failed")
  ELSE IF fr.current = <<>> THEN Fail("AttributeError", "'NoneType' object has no attribute 'Variables'")
  ELSE IF \E k \in 1..6 : fr.current[k].nan THEN Fail("ValueError", "cannot convert float NaN to integer")
  ELSE IF fr.interval = 0 THEN Fail("ZeroDivisionError", "float floor division by zero")
  ELSE
    LET n    == step_count(fr.time, fr.time_end, fr.interval)
        n_ok == n_ok_of(n, fr.t2m, fr.wmo)
    IN  IF \E i \in hourly_reads(n_ok) : i >= Len(fr.t2m) \/ i >= Len(fr.wmo)
        THEN Fail("IndexError", "index out of bounds")
        ELSE IF \E i \in hourly_reads(n_ok) : fr.t2m[i + 1].nan
        THEN Fail("ValueError", "cannot convert float NaN to integer")
        ELSE Ok([ request_limit_reached |-> FALSE,
                  current |-> normalise_current(fr.current),
                  hourly  |-> [ j \in 1..Max2(n_ok, 0) |->
                                  [ time |-> hour_time(fr.time, fr.time_end, n, j - 1),
                                    temp |-> PyRound(fr.t2m[j].v),
                                    wmo  |-> PyInt(fr.wmo[j].v) ] ] ])

\* what get_weather hands back: the exception leaving the call (ret empty), or
\* the returned triple (weather_data, location_info, response) as the one
\* element of ret; of the response only its presence is kept
Returns(weather_data, location_info, has_response) ==
  [ exc |-> NoExc,
    ret |-> << [ weather_data |-> weather_data, location_info |-> location_info,
                 has_response |-> has_response ] >> ]
Raises(e) == [exc |-> e, ret |-> <<>>]

\* except path that keeps the live current conditions it had already built
except_path_partial(fr) ==
  IF fr.request = "ok" /\ fr.current # <<>> /\ \A k \in 1..6 : ~fr.current[k].nan
  THEN [degraded_weather_data EXCEPT !.current = normalise_current(fr.current)]
  ELSE degraded_weather_data

\* the except branch (lines 199-214): every partial result is dropped
except_path(fr) == degraded_weather_data

\* get_weather(lat, lon, place_name, region=, country=): session_ok says whether
\* CachedSession/retry/Client construct (lines 124-126, before the try)
get_weather(lat, lon, place_name, region, country, session_ok, fr) ==
  LET location_info == make_location_info(lat, lon, place_name, region, country)
      body          == try_block(fr)
  IN  IF ~session_ok
      THEN Raises(Exc("OperationalError", "unable to open database file"))
      ELSE IF Raised(body) THEN Returns(except_path(fr), location_info, FALSE)
      ELSE Returns(body.v, location_info, TRUE)

----------------------------------------------------------------------------
(* Output encoding *)

RECURSIVE JsonEscape(_)
\* the body of a JSON string as json.dumps(..., ensure_ascii=False) writes it
JsonEscape(s) ==
  IF Len(s) = 0 THEN ""
  ELSE IF Len(s) = 1
  THEN IF s = "\"" THEN "\\\""
       ELSE IF s = "\\" THEN "\\\\"
       ELSE IF s = "\n" THEN "\\n"
       ELSE s
  ELSE LET h == Len(s) \div 2
       IN  JsonEscape(SubSeq(s, 1, h)) \o JsonEscape(SubSeq(s, h + 1, Len(s)))

\* json.dumps(output, ensure_ascii=False): keys in insertion order
JsonDumps(output) ==
     "{\"text\": \""    \o JsonEscape(output.text)
  \o "\", \"alt\": \""     \o JsonEscape(output.alt)
  \o "\", \"tooltip\": \"" \o JsonEscape(output.tooltip)
  \o "\", \"class\": \""   \o JsonEscape(output.class)
  \o "\"}"

RECURSIVE CountNewlines(_)
\* number of line breaks in a text
CountNewlines(s) ==
  IF Len(s) = 0 THEN 0
  ELSE IF Len(s) = 1 THEN (IF s = "\n" THEN 1 ELSE 0)
  ELSE LET h == Len(s) \div 2
       IN  CountNewlines(SubSeq(s, 1, h)) + CountNewlines(SubSeq(s, h + 1, Len(s)))

\* the warning main() appends when the snapshot is degraded
RequestLimitWarning == "\n{warning} API request limit reached - showing cached/offline data"

\* f"{pin} {city}, {region}, {country} -> {lat:.6f}, {lon:.6f}"
location_line(l) ==
  "{pin} " \o l.city \o ", " \o l.region \o ", " \o l.country \o " -> " \o Fmt6f(l.lat) \o ", " \o Fmt6f(l.lon)

----------------------------------------------------------------------------
(* The environment: what the network, the forecast service and the clock can
   hand to the program *)

\* longest hourly array the forecast service returns here
MaxLen == 3
\* largest value of the parameter `hours` tried
MaxHours == 2

Keys == {"latitude", "longitude", "loc", "lat", "lon", "city", "region",
         "regionName", "country_name", "country"}
EmptyDoc == [k \in Keys |-> JAbsent]
Doc(fields) == fields @@ EmptyDoc

TimeoutReply == [kind |-> "timeout", status |-> 0, reason |-> "", data |-> EmptyDoc]
HttpErrorReply(status, reason) == [kind |-> "http", status |-> status, reason |-> reason, data |-> EmptyDoc]
NotJsonReply == [kind |-> "notjson", status |-> 200, reason |-> "OK", data |-> EmptyDoc]
JsonReply(d) == [kind |-> "json", status |-> 200, reason |-> "OK", data |-> d]

\* replies of each geolocation service: failures of the request, of the status
\* check and of the parse, and well-formed documents in that service's layout
Replies(host) ==
  IF host = "ipapi.co" THEN
    { TimeoutReply,
      HttpErrorReply(429, "Too Many Requests"),
      JsonReply(EmptyDoc),
      JsonReply(Doc(("latitude" :> JNum(52520)) @@ ("longitude" :> JNum(13404))
                    @@ ("city" :> JStr("Berlin")) @@ ("region" :> JStr("Berlin"))
                    @@ ("country_name" :> JStr("Germany")) @@ ("country" :> JStr("DE")))),
      JsonReply(Doc(("latitude" :> JStr("-0.001")) @@ ("longitude" :> JNum(-78467))
                    @@ ("country" :> JStr("EC")))) }
  ELSE IF host = "ipinfo.io" THEN
    { TimeoutReply,
      NotJsonReply,
      JsonReply(Doc(("loc" :> JStr("48.137")) @@ ("city" :> JStr("Munich")))),
      JsonReply(Doc(("loc" :> JStr("48.137,eleven")) @@ ("city" :> JStr("Munich")))),
      JsonReply(Doc(("loc" :> JStr("48.137,11.575")) @@ ("city" :> JStr("Munich"))
                    @@ ("region" :> JStr("Bavaria")) @@ ("country" :> JStr("DE")))) }
  ELSE
    { TimeoutReply,
      HttpErrorReply(503, "Service Unavailable"),
      JsonReply(Doc(("city" :> JStr("Sydney")))),
      JsonReply(Doc(("lat" :> JNum(-33868)) @@ ("lon" :> JNum(151209))
                    @@ ("city" :> JStr("")) @@ ("regionName" :> JStr("New South Wales"))
                    @@ ("region" :> JStr("NSW")) @@ ("country" :> JStr("Australia")))) }

\* 13:00:00 UTC of the first day of the epoch, the start of the hourly series
T0 == 13 * 3600

\* a reply of the forecast service
FR(request, current, time, time_end, interval, t2m, wmo) ==
  [ request |-> request, current |-> current, time |-> time, time_end |-> time_end,
    interval |-> interval, t2m |-> t2m, wmo |-> wmo ]

\* current conditions: 21.5, 19.5, 55.0, 12.5, 270.5 and code 0;
\* -2.5, -3.5, 99.5, 0.5, 359.5 and code 4, which the table does not hold
Cur1 == << Num(43), Num(39), Num(110), Num(25), Num(541), Num(0) >>
Cur2 == << Num(-5), Num(-7), Num(199), Num(1), Num(719), Num(8) >>

\* the i-th hourly temperature (halves, ties and negatives among them) and code
TempAt(i) == Num(((i * 7) % 11) * 3 - 9)
CodeAt(i) == Num(2 * << 61, 4, 95, 0, 3 >>[(i % 5) + 1])

\* k temperatures, m codes and a declared interval of n whole hourly steps
Rect(cur, k, m, n) ==
  FR("ok", cur, T0, T0 + n * 3600, 3600, [i \in 1..k |-> TempAt(i)], [i \in 1..m |-> CodeAt(i)])

FullSeries == [i \in 1..MaxLen |-> TempAt(i)]
FullCodes  == [i \in 1..MaxLen |-> CodeAt(i)]

FailingReplies ==
  { FR("raises", <<>>, 0, 0, 0, <<>>, <<>>),
    FR("ok", <<>>, T0, T0 + 3600, 3600, <<TempAt(1)>>, <<CodeAt(1)>>),
    FR("ok", [Cur1 EXCEPT ![3] = NaN], T0, T0 + 3600, 3600, <<TempAt(1)>>, <<CodeAt(1)>>),
    FR("ok", Cur1, T0, T0 + 3600, 0, <<TempAt(1)>>, <<CodeAt(1)>>),
    FR("ok", Cur1, T0, T0 + MaxLen * 3600, 3600, [FullSeries EXCEPT ![1] = NaN], FullCodes) }

ForecastReplies ==
  { Rect(cur, k, m, n) : cur \in {Cur1, Cur2}, k \in 0..MaxLen, m \in 0..MaxLen, n \in (-1)..(MaxLen + 1) }
  \cup { FR("ok", Cur1, T0, T0 + 10000, 3000, FullSeries, FullCodes),
         FR("ok", Cur1, T0, T0 - 7200, -3600, FullSeries, FullCodes),
         FR("ok", Cur1, T0, T0 + 3600, 3600, FullSeries, [FullCodes EXCEPT ![1] = Num(-3)]),
         FR("ok", Cur1, T0, T0 + MaxLen * 3600, 3600, [FullSeries EXCEPT ![MaxLen] = NaN], FullCodes) }
  \cup FailingReplies

\* the replies main() is run against
MainForecastReplies ==
  { Rect(Cur1, MaxLen, MaxLen, MaxLen), Rect(Cur2, MaxLen, MaxLen - 1, MaxLen + 1),
    FR("raises", <<>>, 0, 0, 0, <<>>, <<>>) }

\* readings of the clock, and UTC offsets of the local zone (+01:00, -03:30)
Clocks == { Instant(T0 - 3600), Instant(T0 + 3600), Instant(T0 + 3600 + 1799),
            Instant(T0 + 2 * 3600 + 600), Instant(T0 + (MaxLen + 1) * 3600) }
Offsets == { 3600, -12600 }

----------------------------------------------------------------------------
(* State *)

VARIABLES
  pc,          \* where main() is
  call,        \* which call of get_ip_location is running (1 or 2)
  idx,         \* get_ip_location: index of the provider tried next
  contacted,   \* get_ip_location: urls requested so far in this call, in order
  resps,       \* get_ip_location: the reply each of those requests got
  last_err,    \* get_ip_location: last_err
  loc,         \* what get_ip_location returned (<<>> before)
  loc_exc,     \* what get_ip_location raised (NoExc if nothing)
  gw,          \* what get_weather handed back (<<>> before)
  output,      \* the dict build_waybar_output returned (<<>> before)
  stdout,      \* the texts printed, one per print call
  exc,         \* the exception that left main() (NoExc if none)
  f_in, f_out, \* a single call of get_weather: its arguments, its result
  m_in,        \* formatter: the arguments location_info, weather_data, warning
  now, off,    \* formatter: the clock and the local zone's offset
  first_build, \* formatter: the first build_waybar_output call and its clock
  last_op      \* formatter: the last call made and its result

mainvars == << pc, call, idx, contacted, resps, last_err, loc, loc_exc, gw, output, stdout, exc >>
fetchvars == << f_in, f_out >>
fmtvars == << m_in, now, off, first_build, last_op >>
vars == << mainvars, fetchvars, fmtvars >>

FetchIdle == f_in = <<>> /\ f_out = <<>>
FmtIdle == m_in = <<>> /\ now = Instant(0) /\ off = 0 /\ first_build = <<>> /\ last_op = <<>>
MainIdle ==
  /\ pc = "idle" /\ call = 0 /\ idx = 0 /\ contacted = <<>> /\ resps = <<>>
  /\ last_err = NoExc /\ loc = <<>> /\ loc_exc = NoExc /\ gw = <<>> /\ output = <<>>
  /\ stdout = <<>> /\ exc = NoExc

----------------------------------------------------------------------------
(* main() *)

Init ==
  /\ pc = "get_ip_location" /\ call = 1 /\ idx = 1 /\ contacted = <<>> /\ resps = <<>>
  /\ last_err = NoExc /\ loc = <<>> /\ loc_exc = NoExc /\ gw = <<>> /\ output = <<>>
  /\ stdout = <<>> /\ exc = NoExc
  /\ FetchIdle /\ FmtIdle

\* one pass of the for loop of get_ip_location (lines 259-267), and the raise
\* after the loop (line 269) when the list is exhausted
TryProvider ==
  /\ pc = "get_ip_location"
  /\ \E resp \in Replies(providers[idx].host) :
       LET p == providers[idx]
           r == try_provider(p, resp)
       IN  /\ contacted' = Append(contacted, p.url)
           /\ resps' = Append(resps, resp)
           /\ IF ~Raised(r)
              THEN /\ loc' = << r.v >>
                   /\ pc' = "returned"
                   /\ UNCHANGED << idx, last_err, loc_exc >>
              ELSE /\ last_err' = record_err(last_err, r.exc)
                   /\ loc' = <<>>
                   /\ IF idx < Len(providers)
                      THEN idx' = idx + 1 /\ UNCHANGED << pc, loc_exc >>
                      ELSE /\ pc' = "raised"
                           /\ loc_exc' = exhausted_error(last_err')
                           /\ UNCHANGED idx
  /\ UNCHANGED << call, gw, output, stdout, exc, fetchvars, fmtvars >>

\* line 275 when get_ip_location raises: nothing catches it
MainAborts ==
  /\ pc = "raised" /\ call = 1
  /\ exc' = loc_exc
  /\ pc' = "crashed"
  /\ UNCHANGED << call, idx, contacted, resps, last_err, loc, loc_exc, gw, output, stdout, fetchvars, fmtvars >>

\* line 276: the call of get_weather with what the resolver returned
GetWeather ==
  /\ pc = "returned" /\ call = 1
  /\ \E session_ok \in BOOLEAN, fr \in MainForecastReplies :
       LET l == loc[1]
           g == get_weather(l.lat, l.lon, l.city, l.region, l.country, session_ok, fr)
       IN  /\ gw' = << g >>
           /\ IF Raised(g) THEN exc' = g.exc /\ pc' = "crashed"
              ELSE exc' = NoExc /\ pc' = "build"
  /\ idx' = 0 /\ contacted' = <<>> /\ resps' = <<>> /\ last_err' = NoExc
  /\ UNCHANGED << call, loc, loc_exc, output, stdout, fetchvars, fmtvars >>

\* lines 278-291: the warning, build_waybar_output, print(json.dumps(...));
\* the clock and the zone are read inside format_hourly_forecast
BuildAndPrint ==
  /\ pc = "build"
  /\ \E t \in Clocks, o \in Offsets :
       LET g   == gw[1].ret[1]
           w   == IF g.weather_data.request_limit_reached THEN RequestLimitWarning ELSE ""
           out == build_waybar_output(g.location_info, g.weather_data, w, t, o)
       IN  /\ output' = << out >>
           /\ stdout' = Append(stdout, JsonDumps(out))
  /\ pc' = "get_ip_location" /\ call' = 2 /\ idx' = 1
  /\ UNCHANGED << contacted, resps, last_err, loc, loc_exc, gw, exc, fetchvars, fmtvars >>

\* lines 292-296: the second resolution is printed, or its error is
PrintLocation ==
  /\ pc \in {"returned", "raised"} /\ call = 2
  /\ stdout' = Append(stdout, IF pc = "returned" THEN location_line(loc[1])
                              ELSE "Fehler: " \o loc_exc.msg)
  /\ pc' = "done"
  /\ UNCHANGED << call, idx, contacted, resps, last_err, loc, loc_exc, gw, output, exc, fetchvars, fmtvars >>

Next == TryProvider \/ MainAborts \/ GetWeather \/ BuildAndPrint \/ PrintLocation

Spec == Init /\ [][Next]_vars

----------------------------------------------------------------------------
(* get_weather called on its own, over every argument and reply drawn *)

FetchInputs ==
  { [ lat |-> c[1], lon |-> c[2], place_name |-> pn, region |-> rc[1], country |-> rc[2],
      session_ok |-> ok, fr |-> fr ] :
      c \in { <<52520, 13404>>, <<-1, -78467>> },
      pn \in { None, "", "Berlin" },
      rc \in { <<None, None>>, <<"Berlin", "Germany">> },
      ok \in BOOLEAN,
      fr \in ForecastReplies }

InitFetch ==
  /\ f_in \in FetchInputs
  /\ f_out = <<>>
  /\ MainIdle /\ FmtIdle

CallGetWeather ==
  /\ f_in # <<>> /\ f_out = <<>>
  /\ f_out' = << get_weather(f_in.lat, f_in.lon, f_in.place_name, f_in.region, f_in.country, f_in.session_ok, f_in.fr) >>
  /\ UNCHANGED << f_in, mainvars, fmtvars >>

NextFetch == CallGetWeather

SpecFetch == InitFetch /\ [][NextFetch]_vars

----------------------------------------------------------------------------
(* The formatter called on its own, on snapshots get_weather produces, while
   the clock advances *)

FmtReplies ==
  { Rect(Cur1, k, k, k) : k \in 0..MaxLen }
  \cup { Rect(Cur2, MaxLen, MaxLen, MaxLen),
         FR("ok", Cur1, T0, T0 + 10000, 3000, FullSeries, FullCodes),
         FR("raises", <<>>, 0, 0, 0, <<>>, <<>>) }

Snapshots ==
  { get_weather(52520, 13404, "Berlin", None, None, TRUE, fr).ret[1].weather_data : fr \in FmtReplies }

LocationInfos ==
  { make_location_info(52520, 13404, "Berlin", "Berlin", "Germany"),
    make_location_info(52520, 13404, None, None, None) }

FmtInputs ==
  { [ location_info |-> li, weather_data |-> wd, warning |-> w ] :
      li \in LocationInfos, wd \in Snapshots, w \in { "", RequestLimitWarning } }

InitFmt ==
  /\ m_in \in FmtInputs
  /\ now \in Clocks
  /\ off \in Offsets
  /\ first_build = <<>>
  /\ last_op = <<>>
  /\ MainIdle /\ FetchIdle

\* time passes
Tick ==
  /\ m_in # <<>>
  /\ \E t \in Clocks : t.s > now.s /\ now' = t
  /\ UNCHANGED << m_in, off, first_build, last_op, mainvars, fetchvars >>

\* build_waybar_output(response, location_info, weather_data, warning)
Build ==
  /\ m_in # <<>>
  /\ LET out == build_waybar_output(m_in.location_info, m_in.weather_data, m_in.warning, now, off)
     IN  /\ last_op' = << [op |-> "build", hours |-> DefaultHours, now |-> now, out |-> out] >>
         /\ first_build' = IF first_build = <<>> THEN << [now |-> now, out |-> out] >>
                           ELSE first_build
  /\ UNCHANGED << m_in, now, off, mainvars, fetchvars >>

\* format_hourly_forecast(hourly, hours)
FormatHourly ==
  /\ m_in # <<>>
  /\ \E hours \in 0..MaxHours :
       last_op' = << [op |-> "format", hours |-> hours, now |-> now,
                      out |-> format_hourly_forecast(m_in.weather_data.hourly, hours, now, off)] >>
  /\ UNCHANGED << m_in, now, off, first_build, mainvars, fetchvars >>

NextFmt == Tick \/ Build \/ FormatHourly

SpecFmt == InitFmt /\ [][NextFmt]_vars

----------------------------------------------------------------------------
(* wmo_to_icon_desc called on its own *)

\* how far below 0 and above the table's largest code the codes tried reach
CodeMargin == 3
LargestCode == CHOOSE c \in DOMAIN WMO : \A d \in DOMAIN WMO : d <= c
LookupCodes == (0 - CodeMargin)..(LargestCode + CodeMargin)

InitWmo == MainIdle /\ FetchIdle /\ FmtIdle

Lookup ==
  /\ pc = "idle"
  /\ \E code \in LookupCodes :
       last_op' = << [op |-> "lookup", code |-> code, out |-> wmo_to_icon_desc(code)] >>
  /\ UNCHANGED << m_in, now, off, first_build, mainvars, fetchvars >>

NextWmo == Lookup

SpecWmo == InitWmo /\ [][NextWmo]_vars

----------------------------------------------------------------------------
(* Properties of get_ip_location and main(), checked under Spec *)

\* the order the documentation of get_ip_location gives
DocumentedOrder ==
  << "https://ipapi.co/json/", "https://ipinfo.io/json", "http://ip-api.com/json" >>

\* the outcome of the i-th request of the running call
Attempt(i) == try_provider(providers[i], resps[i])

\* what the well-formed documents drawn above stand for
ExpectedLocation(url) ==
  IF url = "https://ipinfo.io/json"
  THEN { [lat |-> 48137, lon |-> 11575, city |-> "Munich", region |-> "Bavaria", country |-> "DE"] }
  ELSE IF url = "http://ip-api.com/json"
  THEN { [lat |-> -33868, lon |-> 151209, city |-> "", region |-> "New South Wales", country |-> "Australia"] }
  ELSE { [lat |-> 52520, lon |-> 13404, city |-> "Berlin", region |-> "Berlin", country |-> "Germany"],
         [lat |-> -1, lon |-> -78467, city |-> None, region |-> None, country |-> "EC"] }

\* C2: the providers are requested in the order ipapi.co, ipinfo.io,
\* ip-api.com, each at most once; while the call runs every provider requested
\* so far has failed; when it returns, the last provider requested is the first
\* that succeeded, the value returned is that provider's normalized tuple, and
\* no error of an earlier provider has been raised
C2_FirstSuccessInFixedOrder ==
  /\ Len(contacted) <= Len(DocumentedOrder)
  /\ \A i \in 1..Len(contacted) : contacted[i] = DocumentedOrder[i]
  /\ Len(resps) = Len(contacted)
  /\ pc = "get_ip_location" =>
       /\ Len(contacted) = idx - 1
       /\ \A i \in 1..Len(contacted) : Raised(Attempt(i))
  /\ (pc = "returned" \/ (pc = "done" /\ loc # <<>>)) =>
       LET k == Len(contacted)
       IN  /\ k >= 1
           /\ \A i \in 1..(k - 1) : Raised(Attempt(i))
           /\ ~Raised(Attempt(k))
           /\ loc = << Attempt(k).v >>
           /\ loc[1] \in ExpectedLocation(contacted[k])
           /\ loc_exc = NoExc /\ exc = NoExc

\* C2 witness: the first two providers failed and the third one's tuple came back
C2_Witness ==
  /\ pc = "returned" /\ Len(contacted) = 3
  /\ Raised(Attempt(1)) /\ Raised(Attempt(2))
  /\ loc[1].region = "New South Wales"

\* C3: get_ip_location raises exactly when all three providers failed, and the
\* RuntimeError it raises carries the message of the third provider's failure
C3_RaisesOnlyOnExhaustionWithLastCause ==
  /\ (loc_exc # NoExc) <=>
       (Len(resps) = Len(DocumentedOrder) /\ \A i \in 1..Len(resps) : Raised(Attempt(i)))
  /\ loc_exc # NoExc =>
       /\ loc = <<>>
       /\ pc \in {"raised", "crashed", "done"}
       /\ loc_exc = Exc("RuntimeError", "IP-Geolokation fehlgeschlagen: " \o Attempt(Len(resps)).exc.msg)
  /\ pc = "raised" => loc_exc # NoExc
  /\ pc = "returned" => loc_exc = NoExc

\* C3 witness: all three failed, each with another error
C3_Witness ==
  /\ pc = "raised"
  /\ Attempt(1).exc.msg # Attempt(3).exc.msg
  /\ Attempt(2).exc.msg # Attempt(3).exc.msg
  /\ Attempt(1).exc.msg # Attempt(2).exc.msg

\* C6 as stated: when main() has run to its end after a successful first
\* resolution, standard output holds exactly one line, the JSON object
C6_ExactlyOneLineOnStdout ==
  pc = "done" =>
    /\ Len(stdout) = 1
    /\ stdout[1] = JsonDumps(output[1])
    /\ CountNewlines(stdout[1]) = 0

----------------------------------------------------------------------------
(* Properties of get_weather, checked under SpecFetch *)

Called == f_out # <<>>
Result == f_out[1]
Returned == Called /\ ~Raised(Result)
Snapshot == Result.ret[1].weather_data

\* some step of the call fails: the session cannot be built, or the try block raises
SomeStepFails == ~f_in.session_ok \/ Raised(try_block(f_in.fr))

\* C1 as stated: whatever fails between entry and return, get_weather returns
\* a result instead of raising, and the snapshot of a failed call is the
\* degraded one
C1_NeverRaises ==
  Called =>
    /\ ~Raised(Result)
    /\ SomeStepFails => Snapshot.request_limit_reached

\* a place name counts as provided when it is neither None nor empty, which is
\* what `place_name or ...` tests
Provided(place_name) == place_name # None /\ Len(place_name) > 0

\* C4: when the try block raises, get_weather returns the degraded snapshot
\* (flag set, the five numbers 0, icon {?} with description "unbekannt", code
\* "-1", no hourly point) and no response, with the location_info built before
\* the request: the city is the place name when one was provided and the
\* two-decimal coordinates otherwise, region and country as passed in
C4_DegradedSnapshotOnFailure ==
  (Returned /\ Raised(try_block(f_in.fr))) =>
    /\ Snapshot.request_limit_reached = TRUE
    /\ Snapshot.current.temp = 0 /\ Snapshot.current.feels_like = 0
    /\ Snapshot.current.humidity = 0 /\ Snapshot.current.wind_speed = 0
    /\ Snapshot.current.wind_deg = 0
    /\ Snapshot.current.weather = [description |-> "unbekannt", icon |-> "{?}", icon_code |-> "-1"]
    /\ Snapshot.hourly = <<>>
    /\ ~Result.ret[1].has_response
    /\ Result.ret[1].location_info.region = f_in.region
    /\ Result.ret[1].location_info.country = f_in.country
    /\ Provided(f_in.place_name) => Result.ret[1].location_info.city = f_in.place_name
    /\ ~Provided(f_in.place_name) =>
         Result.ret[1].location_info.city \in {"52.52,13.40", "-0.00,-78.47"}

\* C4 witness: the request and the current block were fine, a later step (an
\* hourly temperature that is NaN) raised, and a place name was given
C4_Witness ==
  /\ Returned
  /\ f_in.fr.request = "ok" /\ f_in.fr.current = Cur1 /\ f_in.fr.interval # 0
  /\ Raised(try_block(f_in.fr))
  /\ f_in.place_name = "Berlin"
  /\ Snapshot.request_limit_reached

\* the reply's declared step count, and the clamp the claim names
DeclaredSteps == (f_in.fr.time_end - f_in.fr.time) \div f_in.fr.interval
ClaimedLength == Min2(DeclaredSteps, Min2(Len(f_in.fr.t2m), Len(f_in.fr.wmo)))

\* the reply can be normalised: the request succeeded, the current block holds
\* six numbers, the interval is not 0 and no temperature that is used is NaN
Normalisable ==
  /\ f_in.session_ok
  /\ f_in.fr.request = "ok"
  /\ Len(f_in.fr.current) = 6 /\ \A k \in 1..6 : ~f_in.fr.current[k].nan
  /\ f_in.fr.interval # 0
  /\ \A i \in 1..ClaimedLength : ~f_in.fr.t2m[i].nan

\* C5 as stated: the hourly sequence has length min(n, #temperatures, #codes),
\* also for a zero or negative n
C5_LengthIsMin ==
  (Returned /\ Result.ret[1].has_response) =>
    Len(Snapshot.hourly) = ClaimedLength

\* C5 amended: a reply that can be normalised is normalised (no index error
\* degrades it, ragged or not); the hourly sequence then has length
\* max(0, min(n, #temperatures, #codes)), entry i pairs the rounded
\* temperature[i] with code[i], and every index read lies inside both arrays
C5_LengthIsClampedMin ==
  /\ (Called /\ Normalisable) => (Returned /\ Result.ret[1].has_response)
  /\ (Returned /\ Result.ret[1].has_response) =>
       /\ Len(Snapshot.hourly) = Max2(0, ClaimedLength)
       /\ \A i \in 1..Len(Snapshot.hourly) :
            /\ Snapshot.hourly[i].temp = PyRound(f_in.fr.t2m[i].v)
            /\ Snapshot.hourly[i].wmo = PyInt(f_in.fr.wmo[i].v)
       /\ \A i \in hourly_reads(Len(Snapshot.hourly)) :
            i < Len(f_in.fr.t2m) /\ i < Len(f_in.fr.wmo)

\* C5 witness: ragged arrays (fewer codes than temperatures, more steps
\* declared than either) normalised to as many points as there are codes
C5_Witness ==
  /\ Returned /\ Result.ret[1].has_response
  /\ Len(f_in.fr.wmo) = 2 /\ Len(f_in.fr.t2m) = 3 /\ DeclaredSteps = 4
  /\ Len(Snapshot.hourly) = 2
  /\ Snapshot.hourly[2].wmo = 95

----------------------------------------------------------------------------
(* Properties of the formatter, checked under SpecFmt *)

Formatted == last_op # <<>> /\ last_op[1].op = "format"
Built == last_op # <<>> /\ last_op[1].op = "build"
Hourly == m_in.weather_data.hourly

\* the number of the local clock hour an instant falls in
LocalHourIndex(t) == (t.s + off) \div 3600

\* the points whose local hour is not earlier than the hour of instant t
NotEarlier(t) == SelectSeq(Hourly, LAMBDA h : LocalHourIndex(h.time) >= LocalHourIndex(t))

FirstN(seq, n) == [i \in 1..Min2(n, Len(seq)) |-> seq[i]]

RECURSIVE RenderRows(_)
RenderRows(rows) ==
  IF Len(rows) = 0 THEN ""
  ELSE "\n" \o LocalHHMM(rows[1].time, off) \o "  " \o wmo_to_icon_desc(rows[1].wmo)[1]
            \o "  " \o ToString(rows[1].temp) \o "degC" \o RenderRows(Tail(rows))

\* C7: for a non-empty hourly sequence the block is the heading followed, in
\* sequence order, by the first `hours` points whose local hour is not earlier
\* than the current hour, or, when no point qualifies, by the first `hours`
\* points of the whole sequence; for an empty sequence it is the empty string
C7_HourlyFilterAndFallback ==
  Formatted =>
    LET op == last_op[1]
        q  == NotEarlier(op.now)
    IN  /\ Len(Hourly) = 0 => op.out = ""
        /\ (Len(Hourly) > 0 /\ Len(q) > 0) =>
             op.out = "\n\nStuendlich:" \o RenderRows(FirstN(q, op.hours))
        /\ (Len(Hourly) > 0 /\ Len(q) = 0) =>
             op.out = "\n\nStuendlich:" \o RenderRows(FirstN(Hourly, op.hours))

\* C7 witness: at 14:xx local-hour time the 13:00 point is left out, and of the
\* points that remain only the first `hours` are rendered
C7_Witness ==
  /\ Formatted
  /\ Len(Hourly) = MaxLen
  /\ LocalHourIndex(Hourly[1].time) < LocalHourIndex(last_op[1].now)
  /\ Len(NotEarlier(last_op[1].now)) = 2
  /\ last_op[1].hours = 1
  /\ last_op[1].out = "\n\nStuendlich:" \o RenderRows(<< Hourly[2] >>)

\* C8 as stated: two calls of build_waybar_output on the same arguments give
\* the same output whatever the clock reads at each call
C8_SameOutputAtAnyClock ==
  (Built /\ first_build # <<>>) => last_op[1].out = first_build[1].out

\* C8 amended: two calls on the same arguments give the same output when the
\* clock reads the same local hour at both calls, or when the hourly sequence
\* is empty
C8_SameOutputWithinTheHour ==
  (Built /\ first_build # <<>>) =>
    ((LocalHourIndex(last_op[1].now) = LocalHourIndex(first_build[1].now) \/ Len(Hourly) = 0)
       => last_op[1].out = first_build[1].out)

\* C8 witness: two calls at different instants of one local hour, on a snapshot
\* with hourly points of which one lies in an earlier hour
C8_Witness ==
  /\ Built /\ first_build # <<>>
  /\ last_op[1].now # first_build[1].now
  /\ LocalHourIndex(last_op[1].now) = LocalHourIndex(first_build[1].now)
  /\ Len(Hourly) = MaxLen
  /\ Len(NotEarlier(last_op[1].now)) \in 1..(MaxLen - 1)

\* the lines of the tooltip before the hourly block, as the claim orders them
HeadLines(blank) ==
  LET li == m_in.location_info
      c  == m_in.weather_data.current
  IN  << "{pin} " \o li.city \o ", " \o li.region \o ", " \o li.country \o m_in.warning >>
      \o blank
      \o << "<span size='xx-large'>" \o ToString(c.temp) \o "degC</span>",
            "<big>" \o c.weather.icon \o " " \o Capitalize(c.weather.description) \o "</big>",
            "Gefuehlte: " \o ToString(c.feels_like) \o "degC",
            "Feuchtigkeit: " \o ToString(c.humidity) \o "%",
            "Wind: " \o ToString(c.wind_speed) \o " km/h" >>

OutputFields(blank) ==
  LET op == last_op[1]
      c  == m_in.weather_data.current
  IN  /\ op.out.tooltip = Join("\n", HeadLines(blank))
                            \o format_hourly_forecast(Hourly, DefaultHours, op.now, off)
      /\ op.out.text = c.weather.icon \o " " \o ToString(c.temp) \o "degC"
      /\ op.out.alt = c.weather.description
      /\ op.out.class = c.weather.icon_code

\* C9 as stated: a blank line follows the location line
C9_TooltipOrderWithBlankLine == Built => OutputFields(<< "" >>)

\* C9 amended: the tooltip is the location line with the warning suffix, then
\* directly (no blank line) the temperature line, the icon and capitalized
\* description line, the feels-like line, the humidity line, the wind line and
\* the hourly block; text is icon and temperature, alt the description as it
\* is, class the code's string form
C9_TooltipOrder == Built => OutputFields(<<>>)

\* C9 witness: a live snapshot with hourly points, rendered with the warning
C9_Witness ==
  /\ Built
  /\ m_in.warning = RequestLimitWarning
  /\ Len(Hourly) = MaxLen
  /\ m_in.weather_data.current.weather.description = "klar"
  /\ last_op[1].out.alt = "klar"
  /\ last_op[1].out.class = "0"

----------------------------------------------------------------------------
(* Properties of wmo_to_icon_desc, checked under SpecWmo *)

LookedUp == last_op # <<>> /\ last_op[1].op = "lookup"

\* one code of each icon of the table
IconFamilies ==
  { <<0, "{sun}", "klar">>, <<1, "{sun-small-cloud}", "ueberwiegend klar">>,
    <<2, "{sun-behind-cloud}", "teilweise bewoelkt">>, <<3, "{cloud}", "bedeckt">>,
    <<45, "{fog}", "nebel">>, <<61, "{sun-rain}", "regen (leicht)">>,
    <<65, "{rain}", "regen (stark)">>, <<71, "{snow-cloud}", "schnee (leicht)">>,
    <<75, "{snowflake}", "schnee (stark)">>, <<95, "{thunder}", "gewitter">> }

LookupAgrees(fallback) ==
  LookedUp =>
    LET code == last_op[1].code
        pair == last_op[1].out
    IN  /\ code \in DOMAIN WMO => pair = WMO[code]
        /\ \A f \in IconFamilies : code = f[1] => pair = << f[2], f[3] >>
        /\ code \notin DOMAIN WMO => pair = fallback

\* C10 as stated: a code outside the table yields the pair ({?}, "unknown")
C10_FallbackIsUnknown == LookupAgrees(<< "{?}", "unknown" >>)

\* C10 amended: every code of the table yields its pair, and every other
\* integer, negative ones included, yields the pair ({?}, "unbekannt")
C10_LookupIsTotal == LookupAgrees(<< "{?}", "unbekannt" >>)

\* C10 witness: the code -1 was looked up and gave the fallback pair
C10_Witness ==
  /\ LookedUp
  /\ last_op[1].code = -1
  /\ last_op[1].out = << "{?}", "unbekannt" >>

====
